---- MODULE Spec2Model ----
(***************************************************************************)
(* A model of the batch scripts of OR568_ML_Project:                       *)
(*   - data_pipeline/join_data_sources.py  (flights x weather x registry)  *)
(*   - data_pipeline/extract_features_opensky_data.py (telemetry features) *)
(*   - ml-shared-notebooks/scripts/get_faa_flight_reg.py (registry dim,   *)
(*     with its cached, retried download)                                  *)
(*   - data_pipeline/get_bts_data.py  (the monthly archive downloads)      *)
(*                                                                         *)
(* Conventions.                                                            *)
(*   A numeric CSV cell is a record [t, v]: Num(x), NaN (missing, also     *)
(*   NaT for instants) or Txt (a token that does not parse as a number).   *)
(*   A text cell is a string; NA is the missing text cell.                 *)
(*   Instants are minutes; a local calendar day d starts at d * 1440,      *)
(*   day 0 being 2022-01-01.  Wind is whole knots and visibility whole     *)
(*   miles, so a severity is kept exactly as a number of 30ths.            *)
(***************************************************************************)
EXTENDS Integers, Sequences, FiniteSets, TLC

VARIABLES
  files,     \* the inputs on disk, read-only: the rows of each file
  pc,        \* position of join_data_sources.main
  flights,   \* the flights DataFrame: a sequence of rows (records)
  weather,   \* the weather DataFrame
  out_csv,   \* the rows written to OUT_CSV
  tpc,       \* position of the telemetry feature script
  df,        \* the telemetry DataFrame
  binScope,  \* what Resampler.transform groups by in the installed pandas
  dpc,       \* position of get_faa_flight_reg.main after parsing
  dim,       \* the registry dimension rows / DataFrame
  faa,       \* get_faa_flight_reg.main up to parsing: the cached archive,
             \* the temporary file and the position in download_with_retries
  bts,       \* get_bts_data: the archives on disk and the position of a run
  pull       \* opensky_pull.fetch_opensky_history_airport: its arguments,
             \* the cursor of _chunks and the queries issued

vars == <<files, pc, flights, weather, out_csv, tpc, df, binScope, dpc, dim,
          faa, bts, pull>>

---------------------------------------------------------------------------
(* Cells *)

NaN == [t |-> "nan", v |-> 0]
Num(x) == [t |-> "num", v |-> x]
Txt == [t |-> "str", v |-> 0]
NA == "<NA>"

isna(c) == c.t = "nan"

\* pd.to_numeric(..., errors="coerce"): what does not parse becomes NaN
to_numeric(c) == IF c.t = "num" THEN c ELSE NaN

fillna(c, d) == IF isna(c) THEN Num(d) ELSE c

clip(c, lo, hi) ==
  IF isna(c) THEN c
  ELSE IF c.v < lo THEN Num(lo) ELSE IF c.v > hi THEN Num(hi) ELSE c

Abs(x) == IF x < 0 THEN -x ELSE x

SeqToSet(s) == {s[i] : i \in 1..Len(s)}

\* the rows of s at the increasing positions in keep
RECURSIVE SelectRows(_, _, _)
SelectRows(s, keep, i) ==
  IF i > Len(s) THEN <<>>
  ELSE (IF i \in keep THEN <<s[i]>> ELSE <<>>) \o SelectRows(s, keep, i + 1)

\* a stable sort of s, as sort_values does for several keys (an indirect
\* stable lexsort); before[i][j] tells that s[i] sorts strictly before s[j]
StableSort(s, before) ==
  LET n == Len(s)
      rank(i) == 1 + Cardinality({j \in 1..n :
                        \/ before[j][i]
                        \/ (~before[i][j] /\ j < i)})
  IN [k \in 1..n |-> s[CHOOSE i \in 1..n : rank(i) = k]]

Drop(r, cols) == [k \in DOMAIN r \ cols |-> r[k]]

\* the text cells of the model in lexicographic (code point) order
StrOrder == <<" bwi ", " n1", "A", "B", "BWI", "DCA", "JFK", "N1", "N2", "NAN",
              "a", "b", "bwi", "jfk ", "n1">>

StrRank(s) == CHOOSE i \in 1..Len(StrOrder) : StrOrder[i] = s

StrLess(a, b) == StrRank(a) < StrRank(b)

\* str.strip().str.upper() on the text cells of the model
StripUpper(s) ==
  CASE s \in {" bwi ", "bwi", "BWI"} -> "BWI"
    [] s \in {"jfk ", "JFK"} -> "JFK"
    [] s \in {" n1", "n1", "N1"} -> "N1"
    [] s = "a" -> "A"
    [] s = "b" -> "B"
    [] OTHER -> s

\* Series.astype(str) turns a missing cell into the text "nan"
normalize_upper(s) == IF s = NA THEN "NAN" ELSE StripUpper(s)

---------------------------------------------------------------------------
(* Scheduled instants *)

MinutesPerDay == 1440
MinutesPerHour == 60
\* America/New_York in 2022: UTC-5, and UTC-4 between 2022-03-13 02:00
\* (day 71) and 2022-11-06 02:00 (day 309)
DstStartDay == 71
DstEndDay == 309
EstOffset == 300
EdtOffset == 240

Raise == [t |-> "raise", v |-> 0]

hhmm_to_minutes(hhmm) ==
  IF isna(hhmm) THEN NaN
  ELSE IF hhmm.t # "num" THEN Raise          \* int(float("...")) raises
  ELSE Num((hhmm.v \div 100) * 60 + (hhmm.v % 100))

\* tz_localize(local_tz, nonexistent="NaT", ambiguous="NaT"), tz_convert("UTC")
tz_localize_utc(naive) ==
  LET gapLo == DstStartDay * MinutesPerDay + 2 * MinutesPerHour
      gapHi == gapLo + MinutesPerHour
      ambLo == DstEndDay * MinutesPerDay + MinutesPerHour
      ambHi == ambLo + MinutesPerHour
  IN IF isna(naive) THEN NaN
     ELSE IF naive.v >= gapLo /\ naive.v < gapHi THEN NaN
     ELSE IF naive.v >= ambLo /\ naive.v < ambHi THEN NaN
     ELSE IF naive.v >= gapHi /\ naive.v < ambLo THEN Num(naive.v + EdtOffset)
     ELSE Num(naive.v + EstOffset)

\* one element of build_local_ts; Raise when hhmm_to_minutes raises
build_local_ts(flight_date, hhmm) ==
  LET d == to_numeric(flight_date)       \* pd.to_datetime(errors="coerce")
      mins == hhmm_to_minutes(hhmm)
      ts_naive == IF isna(d) \/ isna(mins) THEN NaN
                  ELSE Num(d.v * MinutesPerDay + mins.v)
  IN IF mins = Raise THEN Raise ELSE tz_localize_utc(ts_naive)

---------------------------------------------------------------------------
(* Weather *)

\* pd.Timedelta("2h"), in minutes
WEATHER_TOLERANCE == 120
\* thresholds of the regional features; a severity is a number of 30ths,
\* so 1.5 is 45 and 1.0 is 30
SeverityScale == 30
STORM_SEVERITY_THRESHOLD == 45
SYSTEM_INDEX_THRESHOLD == 30
SYSTEM_STORM_COUNT_THRESHOLD == 2
\* fallback values of compute_weather_severity
DefaultVisibility == 10
DefaultCeiling == 99999
LowCeilingLimit == 1000

\* the severity with a missing visibility filled by 0 instead of 10
compute_weather_severity_vis0(wind_knots, vis_miles, precip_in, ceiling_ft) ==
  LET wind == fillna(to_numeric(wind_knots), 0)
      vis == clip(fillna(to_numeric(vis_miles), 0), 0, DefaultVisibility)
      p01i == fillna(to_numeric(precip_in), 0)
      ceil == fillna(to_numeric(ceiling_ft), DefaultCeiling)
      precip_flag == IF p01i.v > 0 THEN 1 ELSE 0
      low_ceiling_flag == IF ceil.v < LowCeilingLimit THEN 1 ELSE 0
  IN Num(wind.v + (SeverityScale - 3 * vis.v)
         + SeverityScale * precip_flag + SeverityScale * low_ceiling_flag)

\* (wind/30) + (1 - vis/10) + IF(precip>0,1,0) + IF(ceiling<1000,1,0); a
\* tenth of a mile is 3 thirtieths,
\* as a cell holding the number of 30ths
compute_weather_severity(wind_knots, vis_miles, precip_in, ceiling_ft) ==
  LET wind == fillna(to_numeric(wind_knots), 0)
      vis == clip(fillna(to_numeric(vis_miles), DefaultVisibility),
                  0, DefaultVisibility)
      p01i == fillna(to_numeric(precip_in), 0)
      ceil == fillna(to_numeric(ceiling_ft), DefaultCeiling)
      precip_flag == IF p01i.v > 0 THEN 1 ELSE 0
      low_ceiling_flag == IF ceil.v < LowCeilingLimit THEN 1 ELSE 0
  IN Num(wind.v + (SeverityScale - 3 * vis.v)
         + SeverityScale * precip_flag + SeverityScale * low_ceiling_flag)

WeatherLess(a, b) ==
  \/ StrLess(a.station, b.station)
  \/ (a.station = b.station /\ a.valid_ts.v < b.valid_ts.v)

\* prep_weather applied to the rows of the weather CSV
prep_weather(w) ==
  LET norm == [i \in 1..Len(w) |->
                 [station |-> normalize_upper(w[i].station),
                  valid_ts |-> to_numeric(w[i].valid),
                  tmpf |-> w[i].tmpf, sknt |-> w[i].sknt, vsby |-> w[i].vsby,
                  p01i |-> w[i].p01i, skyl1 |-> w[i].skyl1,
                  gust |-> w[i].gust, wxcodes |-> w[i].wxcodes]]
      kept == SelectRows(norm, {i \in 1..Len(norm) :
                 norm[i].station # NA /\ ~isna(norm[i].valid_ts)}, 1)
  IN StableSort(kept, [i \in DOMAIN kept |-> [j \in DOMAIN kept |->
                          WeatherLess(kept[i], kept[j])]])

AsofLess(a, b) ==
  \/ a.ts.v < b.ts.v
  \/ (a.ts.v = b.ts.v /\ StrLess(a.station, b.station))

\* sort_values(["ts", "station"])
sort_asof(rows) ==
  StableSort(rows, [i \in DOMAIN rows |-> [j \in DOMAIN rows |->
                      AsofLess(rows[i], rows[j])]])

Max(S) == CHOOSE x \in S : \A y \in S : y <= x
Min(S) == CHOOSE x \in S : \A y \in S : x <= y

\* a tolerance test that leaves out the tolerance itself
within_tolerance_exclusive(diff) == diff < WEATHER_TOLERANCE

\* the tolerance test of merge_asof: a candidate farther than it is no match
within_tolerance(diff) == diff <= WEATHER_TOLERANCE

\* asof_join_backward with by=station: the last right row of the station
\* at or before the left instant; 0 when there is none within tolerance
asof_backward(l, right) ==
  LET c == {j \in 1..Len(right) :
              right[j].station = l.station /\ right[j].ts.v <= l.ts.v}
  IN IF c = {} THEN 0
     ELSE IF within_tolerance(l.ts.v - right[Max(c)].ts.v) THEN Max(c) ELSE 0

\* asof_join_forward with by=station
asof_forward(l, right) ==
  LET c == {j \in 1..Len(right) :
              right[j].station = l.station /\ right[j].ts.v >= l.ts.v}
  IN IF c = {} THEN 0
     ELSE IF within_tolerance(right[Min(c)].ts.v - l.ts.v) THEN Min(c) ELSE 0

\* the nearest join with the forward candidate taken on a tie
asof_nearest_tie_forward(l, right) ==
  LET b == asof_backward(l, right)
      f == asof_forward(l, right)
  IN IF b # 0 /\ f # 0
     THEN (IF l.ts.v - right[b].ts.v < right[f].ts.v - l.ts.v THEN b ELSE f)
     ELSE IF b # 0 THEN b ELSE f

\* asof_join_nearest: the closer of the two, the backward one on a tie
asof_nearest(l, right) ==
  LET b == asof_backward(l, right)
      f == asof_forward(l, right)
  IN IF b # 0 /\ f # 0
     THEN (IF l.ts.v - right[b].ts.v <= right[f].ts.v - l.ts.v THEN b ELSE f)
     ELSE IF b # 0 THEN b ELSE f

\* the clean-up loop left out: no raw weather column is dropped
RawWeatherColsKept == {}

RawWeatherCols ==
  {"tmpf", "sknt", "vsby", "p01i", "skyl1", "gust", "wxcodes"}

NoWeather == [tmpf |-> NaN, sknt |-> NaN, vsby |-> NaN, p01i |-> NaN,
              skyl1 |-> NaN, gust |-> NaN, wxcodes |-> NA]

Col(prefix, name) == prefix \o "_" \o name

\* attach_weather_nearest, whole: keys, merge_asof, merge back, derived
\* columns, clean-up
attach_weather_nearest(f0, w, airport_col, time_col, prefix) ==
  LET f == [i \in 1..Len(f0) |->
              f0[i] @@ (Col(prefix, "station") :> normalize_upper(f0[i][airport_col]))
                    @@ ("_row_id" :> i)]
      left0 == [i \in 1..Len(f) |->
                  [_row_id |-> f[i]["_row_id"],
                   station |-> normalize_upper(f[i][Col(prefix, "station")]),
                   ts |-> to_numeric(f[i][time_col])]]
      left == sort_asof(
                SelectRows(left0, {i \in 1..Len(left0) :
                   left0[i].station # NA /\ ~isna(left0[i].ts)}, 1))
      right0 == [j \in 1..Len(w) |->
                   [station |-> normalize_upper(w[j].station),
                    ts |-> to_numeric(w[j].valid_ts),
                    tmpf |-> w[j].tmpf, sknt |-> w[j].sknt, vsby |-> w[j].vsby,
                    p01i |-> w[j].p01i, skyl1 |-> w[j].skyl1,
                    gust |-> w[j].gust, wxcodes |-> w[j].wxcodes]]
      right == sort_asof(
                 SelectRows(right0, {j \in 1..Len(right0) :
                    right0[j].station # NA /\ ~isna(right0[j].ts)}, 1))
      merged == [k \in 1..Len(left) |->
                   LET m == asof_nearest(left[k], right)
                   IN [_row_id |-> left[k]["_row_id"]]
                      @@ (IF m = 0 THEN NoWeather
                          ELSE Drop(right[m], {"station", "ts"}))]
      \* f.merge(merged, on="_row_id", how="left")
      joined(i) ==
        LET hit == {k \in 1..Len(merged) : merged[k]["_row_id"] = f[i]["_row_id"]}
        IN [k \in hit |-> f[i] @@ merged[k]]
      back == [i \in 1..Len(f) |->
                 IF DOMAIN joined(i) = {} THEN f[i] @@ NoWeather
                 ELSE joined(i)[CHOOSE k \in DOMAIN joined(i) : TRUE]]
      derived(r) ==
        LET p01i == fillna(to_numeric(r.p01i), 0)
            ceil == to_numeric(r.skyl1)
        IN r @@ (Col(prefix, "tmpf") :> r.tmpf)
             @@ (Col(prefix, "wind") :> r.sknt)
             @@ (Col(prefix, "visibility") :> r.vsby)
             @@ (Col(prefix, "precip_flag") :> (IF p01i.v > 0 THEN 1 ELSE 0))
             @@ (Col(prefix, "ceiling_ft") :> ceil)
             @@ (Col(prefix, "low_ceiling_flag") :>
                   (IF fillna(ceil, DefaultCeiling).v < LowCeilingLimit THEN 1 ELSE 0))
             @@ (Col(prefix, "weather_severity") :>
                   compute_weather_severity(r.sknt, r.vsby, p01i, ceil))
  IN [i \in 1..Len(back) |->
        Drop(derived(back[i]), RawWeatherCols \cup {"_row_id"})]

---------------------------------------------------------------------------
(* Regional features *)

RECURSIVE SumOver(_, _)
SumOver(S, val) ==
  IF S = {} THEN 0
  ELSE LET x == CHOOSE y \in S : TRUE IN val[x] + SumOver(S \ {x}, val)

\* a mean of severities, exactly: n 30ths over d observations
IdxNaN == [t |-> "nan", n |-> 0, d |-> 1]
Idx(n, d) == [t |-> "num", n |-> n, d |-> d]

\* dt.round("h") in place of dt.floor("h")
round_hour(ts) ==
  IF isna(ts) THEN NaN
  ELSE Num((ts.v + MinutesPerHour \div 2) \div MinutesPerHour)

\* dt.floor("h")
floor_hour(ts) == IF isna(ts) THEN NaN ELSE Num(ts.v \div MinutesPerHour)

\* the test with AND in place of OR
system_weather_test_and(index, storm_count) ==
  /\ (index.t = "num" /\ index.n > SYSTEM_INDEX_THRESHOLD * index.d)
  /\ storm_count >= SYSTEM_STORM_COUNT_THRESHOLD

\* the test of np.where in add_regional_features; a NaN index compares False
system_weather_test(index, storm_count) ==
  \/ (index.t = "num" /\ index.n > SYSTEM_INDEX_THRESHOLD * index.d)
  \/ storm_count >= SYSTEM_STORM_COUNT_THRESHOLD

add_regional_features(f0, w) ==
  LET severity == [j \in 1..Len(w) |->
                     compute_weather_severity(w[j].sknt, w[j].vsby,
                                              w[j].p01i, w[j].skyl1).v]
      hour == [j \in 1..Len(w) |-> floor_hour(w[j].valid_ts)]
      group(h) == {j \in 1..Len(w) : hour[j] = h}
      \* w.groupby("hour").agg(mean, storm count)
      index_of(h) == Idx(SumOver(group(h), severity), Cardinality(group(h)))
      storms_of(h) ==
        Cardinality({j \in group(h) : severity[j] >= STORM_SEVERITY_THRESHOLD})
      row(r) ==
        LET dep_hour == floor_hour(r.crs_dep_ts_utc)
            hit == ~isna(dep_hour) /\ group(dep_hour) # {}
            index == IF hit THEN index_of(dep_hour) ELSE IdxNaN
            \* to_numeric(...).fillna(0).astype(int)
            storm_count == IF hit THEN storms_of(dep_hour) ELSE 0
        IN r @@ [dep_hour |-> dep_hour,
                 regional_weather_index |-> index,
                 regional_storm_count |-> storm_count,
                 system_weather_flag |->
                   IF system_weather_test(index, storm_count) THEN 1 ELSE 0]
  IN [i \in 1..Len(f0) |-> row(f0[i])]

---------------------------------------------------------------------------
(* Registry *)

\* DataFrame.drop_duplicates(subset=...), keep="first" by default; key[i]
\* is the value of the subset columns in row i
drop_duplicates_first(s, key) ==
  SelectRows(s, {i \in 1..Len(s) : \A j \in 1..(i - 1) : key[j] # key[i]}, 1)

\* DataFrame.drop_duplicates(subset=..., keep="last")
drop_duplicates_last(s, key) ==
  SelectRows(s, {i \in 1..Len(s) :
                   \A j \in (i + 1)..Len(s) : key[j] # key[i]}, 1)

\* the registry columns of the model besides n_number
RegistryCols == {"aircraft_type", "num_seats"}

\* what a left merge leaves in the registry columns of an unmatched row
unmatched_registry == [aircraft_type |-> NA, num_seats |-> NA]

\* reg[registry_cols].drop_duplicates(subset=["n_number"])
reg_small_of(reg_csv) ==
  LET reg == [i \in 1..Len(reg_csv) |->
                [reg_csv[i] EXCEPT !.n_number = normalize_upper(@)]]
  IN drop_duplicates_first(reg, [i \in DOMAIN reg |-> reg[i].n_number])

\* reg.columns: the header of the registry CSV; a file without rows has
\* the header the registry script writes
reg_columns(reg_csv) ==
  IF reg_csv = <<>> THEN RegistryCols \cup {"n_number"}
  ELSE DOMAIN reg_csv[1]

RECURSIVE Flatten(_, _)
Flatten(ss, i) == IF i > Len(ss) THEN <<>> ELSE ss[i] \o Flatten(ss, i + 1)

\* attach_registry: a left merge on Tail_Number = n_number; a flight row is
\* repeated once per matching row of reg_small
attach_registry(f0, reg_csv) ==
  LET f == [i \in 1..Len(f0) |->
              [f0[i] EXCEPT !.Tail_Number = normalize_upper(@)]]
      reg_small == reg_small_of(reg_csv)
      rows(i) ==
        LET hit == SelectRows(reg_small, {k \in 1..Len(reg_small) :
                      reg_small[k].n_number = f[i].Tail_Number}, 1)
        IN IF hit = <<>> THEN <<f[i] @@ unmatched_registry>>
           ELSE [k \in 1..Len(hit) |-> f[i] @@ Drop(hit[k], {"n_number"})]
  IN Flatten([i \in 1..Len(f) |-> rows(i)], 1)

out_cols == {"FlightDate", "Origin", "Dest", "CRSDepTime", "Tail_Number",
             "aircraft_type", "num_seats",
             "dep_tmpf", "dep_wind", "dep_visibility", "dep_precip_flag",
             "dep_ceiling_ft", "dep_weather_severity",
             "arr_tmpf", "arr_wind", "arr_visibility", "arr_precip_flag",
             "arr_ceiling_ft", "arr_weather_severity",
             "regional_weather_index", "regional_storm_count",
             "system_weather_flag"}

---------------------------------------------------------------------------
(* Inputs of join_data_sources.main *)

MaxObs == 2        \* weather rows drawn for the nearest-match inputs
MaxHourObs == 3    \* weather rows drawn for the regional inputs
MaxReg == 2        \* registry rows drawn for the registry inputs

\* 2022-03-12 13:05 -> 14:10 America/New_York, BWI -> JFK
BaseFlight == [FlightDate |-> Num(70), CRSDepTime |-> Num(1305),
               CRSArrTime |-> Num(1410), Origin |-> "BWI", Dest |-> "JFK",
               Tail_Number |-> "N1"]

\* the UTC instant of BaseFlight's scheduled departure
BaseDep == build_local_ts(BaseFlight.FlightDate, BaseFlight.CRSDepTime).v

Obs(station, valid, id, sknt, p01i) ==
  [station |-> station, valid |-> valid, tmpf |-> Num(id), sknt |-> sknt,
   vsby |-> Num(10), p01i |-> p01i, skyl1 |-> Num(5000),
   gust |-> NaN, wxcodes |-> NA]

BaseWeather ==
  <<Obs("BWI", Num(BaseDep - 5), 1, Num(0), Num(0)),
    Obs("JFK", Num(BaseDep + 60), 2, Num(0), Num(0)),
    Obs("JFK", Num(BaseDep - 765 + 1440), 3, Num(0), Num(0))>>

BaseRegistry ==
  <<[n_number |-> "N1", aircraft_type |-> "A", num_seats |-> "180"]>>

Pick(pool, n) ==
  {SelectRows(pool, I, 1) :
     I \in {J \in SUBSET (1..Len(pool)) : Cardinality(J) <= n}}

SeqsUpTo(S, n) == UNION {[1..k -> S] : k \in 0..n}

\* scheduled dates and clock values, among them the 2022 daylight-saving
\* transition days, a missing cell and a cell that does not parse
DateCells == {NaN, Txt, Num(70), Num(DstStartDay), Num(DstEndDay)}
ClockCells == {NaN, Txt, Num(20), Num(130), Num(230), Num(1305), Num(2350)}

TimeInputs ==
  {[flights |-> <<BaseFlight,
                  [BaseFlight EXCEPT !.FlightDate = d, !.CRSDepTime = a,
                                     !.CRSArrTime = b]>>,
    weather |-> BaseWeather, registry |-> BaseRegistry] :
     d \in DateCells, a \in ClockCells, b \in ClockCells}

NearestStations == <<"jfk ", "BWI", NA>>
NearestOffsets == <<30, -121, 121, -30, -120>>

NearestPool ==
  [k \in 1..(Len(NearestStations) * Len(NearestOffsets) + 1) |->
     IF k > Len(NearestStations) * Len(NearestOffsets)
     THEN Obs("BWI", NaN, k, Num(0), Num(0))
     ELSE Obs(NearestStations[((k - 1) % Len(NearestStations)) + 1],
              Num(BaseDep + NearestOffsets[((k - 1) \div Len(NearestStations)) + 1]),
              k, Num(k), Num(0))]

NearestInputs ==
  {[flights |-> <<[BaseFlight EXCEPT !.Origin = o, !.Dest = d]>>,
    weather |-> w, registry |-> BaseRegistry] :
     o \in {"bwi", NA}, d \in {"JFK", NA}, w \in Pick(NearestPool, MaxObs)}

\* observations of the departure hour and of the hour before it: calm, a
\* storm of severity exactly 1.5 (45 kt), a storm with rain (2.5)
RegionalPool ==
  <<Obs("BWI", Num(BaseDep), 1, Num(0), Num(0)),
    Obs("BWI", Num(BaseDep), 2, Num(45), Num(0)),
    Obs("BWI", Num(BaseDep), 3, Num(45), Num(1)),
    Obs("JFK", Num(BaseDep + 30), 4, Num(0), Num(0)),
    Obs("JFK", Num(BaseDep + 30), 5, Num(45), Num(0)),
    Obs("DCA", Num(BaseDep + 30), 6, Num(45), Num(1)),
    Obs("BWI", Num(BaseDep - 30), 7, Num(0), Num(0)),
    Obs("DCA", Num(BaseDep - 30), 8, Num(45), Num(1))>>

RegionalInputs ==
  {[flights |-> <<BaseFlight>>, weather |-> w, registry |-> BaseRegistry] :
     w \in Pick(RegionalPool, MaxHourObs)}

\* one observation at the departure instant, every combination of its cells
SeverityInputs ==
  {[flights |-> <<BaseFlight>>,
    weather |-> <<[station |-> "BWI", valid |-> Num(BaseDep), tmpf |-> Num(1),
                   sknt |-> s, vsby |-> v, p01i |-> p, skyl1 |-> c,
                   gust |-> NaN, wxcodes |-> NA]>>,
    registry |-> BaseRegistry] :
     s \in {NaN, Txt, Num(0), Num(15), Num(45)},
     v \in {NaN, Txt, Num(-2), Num(0), Num(5), Num(10), Num(15)},
     p \in {NaN, Txt, Num(0), Num(1)},
     c \in {NaN, Txt, Num(500), Num(999), Num(1000), Num(5000)}}

RegistryPool ==
  {[n_number |-> n, aircraft_type |-> a, num_seats |-> "180"] :
     n \in {"N1", " n1", NA}, a \in {"A", "B"}}

RegistryInputs ==
  {[flights |-> <<[BaseFlight EXCEPT !.Tail_Number = t]>>,
    weather |-> BaseWeather, registry |-> r] :
     t \in {"n1", "N2", NA}, r \in SeqsUpTo(RegistryPool, MaxReg)}

\* registry files that still carry the FAA header of the key column
RawRegistryPool ==
  {[N_NUMBER |-> n, aircraft_type |-> "A", num_seats |-> "180"] :
     n \in {"N1", "N2"}}

RegistryNoKeyInputs ==
  {[flights |-> <<[BaseFlight EXCEPT !.Tail_Number = t]>>,
    weather |-> BaseWeather, registry |-> r] :
     t \in {"n1", NA}, r \in SeqsUpTo(RawRegistryPool, MaxReg) \ {<<>>}}

JoinInputs ==
  TimeInputs \cup NearestInputs \cup RegionalInputs \cup SeverityInputs
  \cup RegistryInputs \cup RegistryNoKeyInputs

NoFiles == [flights |-> <<>>, weather |-> <<>>, registry |-> <<>>,
            states |-> <<>>, master |-> <<>>]

TelemetryIdle == tpc = "idle" /\ df = <<>> /\ binScope = "entity"
DimIdle == dpc = "idle" /\ dim = <<>>

\* a path that holds no file
NoFile == [exists |-> FALSE, size |-> 0, age |-> 0, ok |-> FALSE, gen |-> "none"]
NoPart == [exists |-> FALSE, chunks |-> 0]
FaaStopped ==
  [pc |-> "idle", attempts |-> 0, i |-> 0, backoff |-> 0, requests |-> 0,
   sleeps |-> <<>>, body |-> 0, zip |-> NoFile, zip0 |-> NoFile,
   part |-> NoPart, err |-> "none", failed |-> 0, won |-> 0,
   called |-> FALSE, validated |-> FALSE]
FaaIdle == faa = FaaStopped

NoZip == [exists |-> FALSE, chunks |-> 0, complete |-> FALSE]
BtsStopped ==
  [pc |-> "idle", run |-> 0, month |-> 0, zips |-> <<>>, body |-> 0,
   skipped |-> FALSE, cols |-> <<>>, err |-> "none", filtered |-> {},
   written |-> {}]
BtsIdle == bts = BtsStopped

PullStopped ==
  [pc |-> "idle", start |-> 0, stop |-> 0, chunk_hours |-> 0, cur |-> 0,
   nxt |-> 0, yielded |-> <<>>, queries |-> 0, err |-> "none"]
PullIdle == pull = PullStopped

Init ==
  /\ \E c \in JoinInputs :
       files = [NoFiles EXCEPT !.flights = c.flights, !.weather = c.weather,
                               !.registry = c.registry]
  /\ pc = "start"
  /\ flights = <<>>
  /\ weather = <<>>
  /\ out_csv = <<>>
  /\ TelemetryIdle
  /\ DimIdle
  /\ FaaIdle
  /\ BtsIdle
  /\ PullIdle

---------------------------------------------------------------------------
(* join_data_sources.main, one action per numbered step *)

JoinOthers == UNCHANGED <<files, tpc, df, binScope, dpc, dim, faa, bts, pull>>

\* 1) read the flights, normalise the airport codes, build both instants
LoadFlights ==
  /\ pc = "start"
  /\ LET raw == files.flights
         dep == [i \in 1..Len(raw) |->
                   build_local_ts(raw[i].FlightDate, raw[i].CRSDepTime)]
         arr == [i \in 1..Len(raw) |->
                   build_local_ts(raw[i].FlightDate, raw[i].CRSArrTime)]
         raised == \E i \in 1..Len(raw) : dep[i] = Raise \/ arr[i] = Raise
     IN IF raised
        THEN pc' = "failed" /\ flights' = flights
        ELSE /\ pc' = "flights_ready"
             /\ flights' = [i \in 1..Len(raw) |->
                  [raw[i] EXCEPT !.Origin = normalize_upper(@),
                                 !.Dest = normalize_upper(@)]
                  @@ [crs_dep_ts_utc |-> dep[i], crs_arr_ts_utc |-> arr[i]]]
  /\ UNCHANGED <<weather, out_csv>>
  /\ JoinOthers

\* 2) weather
PrepWeather ==
  /\ pc = "flights_ready"
  /\ weather' = prep_weather(files.weather)
  /\ pc' = "weather_ready"
  /\ UNCHANGED <<flights, out_csv>>
  /\ JoinOthers

\* 3) departure weather (Origin)
AttachDep ==
  /\ pc = "weather_ready"
  /\ flights' = attach_weather_nearest(flights, weather, "Origin",
                                       "crs_dep_ts_utc", "dep")
  /\ pc' = "dep_attached"
  /\ UNCHANGED <<weather, out_csv>>
  /\ JoinOthers

\* 4) arrival weather (Dest)
AttachArr ==
  /\ pc = "dep_attached"
  /\ flights' = attach_weather_nearest(flights, weather, "Dest",
                                       "crs_arr_ts_utc", "arr")
  /\ pc' = "arr_attached"
  /\ UNCHANGED <<weather, out_csv>>
  /\ JoinOthers

\* 5) regional system features
AddRegional ==
  /\ pc = "arr_attached"
  /\ flights' = add_regional_features(flights, weather)
  /\ pc' = "regional_added"
  /\ UNCHANGED <<weather, out_csv>>
  /\ JoinOthers

\* 6) registry join; ValueError("Registry CSV missing required column:
\* n_number") leaves main, the flights copy f is lost
AttachRegistry ==
  /\ pc = "regional_added"
  /\ IF "n_number" \notin reg_columns(files.registry)
     THEN pc' = "registry_error" /\ flights' = flights
     ELSE /\ flights' = attach_registry(flights, files.registry)
          /\ pc' = "registry_attached"
  /\ UNCHANGED <<weather, out_csv>>
  /\ JoinOthers

\* 7) the output columns, written to OUT_CSV
WriteOutput ==
  /\ pc = "registry_attached"
  /\ out_csv' = [i \in 1..Len(flights) |->
                   [k \in DOMAIN flights[i] \cap out_cols |-> flights[i][k]]]
  /\ pc' = "done"
  /\ UNCHANGED <<flights, weather>>
  /\ JoinOthers

Next ==
  \/ LoadFlights
  \/ PrepWeather
  \/ AttachDep
  \/ AttachArr
  \/ AddRegional
  \/ AttachRegistry
  \/ WriteOutput

Spec == Init /\ [][Next]_vars

---------------------------------------------------------------------------
(* Properties of the join pipeline *)

AfterDep == {"dep_attached", "arr_attached", "regional_added",
             "registry_attached", "done"}
AfterArr == {"arr_attached", "regional_added", "registry_attached", "done"}
AfterRegional == {"regional_added", "registry_attached", "done"}
AfterRegistry == {"registry_attached", "done"}

\* the rows of the weather CSV a flight at station s may be matched to
Candidates(s) ==
  {j \in 1..Len(files.weather) :
     /\ files.weather[j].station # NA
     /\ normalize_upper(files.weather[j].station) = s
     /\ files.weather[j].valid.t = "num"}

Distance(j, t) == Abs(files.weather[j].valid.v - t)

Attached(r, prefix, o) ==
  /\ r[Col(prefix, "tmpf")] = o.tmpf
  /\ r[Col(prefix, "wind")] = o.sknt
  /\ r[Col(prefix, "visibility")] = o.vsby
  /\ r[Col(prefix, "ceiling_ft")] = to_numeric(o.skyl1)

NoneAttached(r, prefix) ==
  /\ r[Col(prefix, "tmpf")] = NaN
  /\ r[Col(prefix, "wind")] = NaN
  /\ r[Col(prefix, "visibility")] = NaN
  /\ r[Col(prefix, "ceiling_ft")] = NaN

NearestAttached(i, airport_col, time_col, prefix) ==
  LET s == normalize_upper(files.flights[i][airport_col])
      t == flights[i][time_col].v
      near == {j \in Candidates(s) : Distance(j, t) <= WEATHER_TOLERANCE}
  IN IF near = {} THEN NoneAttached(flights[i], prefix)
     ELSE \E j \in near :
            /\ \A k \in Candidates(s) : Distance(j, t) <= Distance(k, t)
            /\ Attached(flights[i], prefix, files.weather[j])

\* C1: a flight with a station and an instant carries the observation of
\* its station at the least distance in time when that distance is at most
\* WEATHER_TOLERANCE, and null weather values otherwise; on the departure
\* side and on the arrival side.
C1_NearestWithinTolerance ==
  /\ pc \in AfterDep =>
       /\ Len(flights) = Len(files.flights)
       /\ \A i \in 1..Len(flights) :
            (files.flights[i].Origin # NA /\ ~isna(flights[i].crs_dep_ts_utc))
            => NearestAttached(i, "Origin", "crs_dep_ts_utc", "dep")
  /\ pc \in AfterArr =>
       \A i \in 1..Len(flights) :
         (files.flights[i].Dest # NA /\ ~isna(flights[i].crs_arr_ts_utc))
         => NearestAttached(i, "Dest", "crs_arr_ts_utc", "arr")

\* a matched flight whose station has a second, strictly farther observation
\* beyond the tolerance, and a flight left unmatched by such an observation
C1_Witness ==
  /\ pc = "dep_attached"
  /\ \E i \in 1..Len(flights) :
       LET s == normalize_upper(files.flights[i].Origin)
           t == flights[i].crs_dep_ts_utc.v
       IN /\ files.flights[i].Origin # NA
          /\ flights[i].dep_tmpf # NaN
          /\ \E j, k \in Candidates(s) :
               /\ Distance(j, t) = WEATHER_TOLERANCE
               /\ Distance(k, t) > WEATHER_TOLERANCE
               /\ flights[i].dep_tmpf = files.weather[j].tmpf

\* the instant the spec gives a scheduled arrival: the flight date, plus one
\* day when the arrival clock value is below the departure clock value
RolledArrival(r) ==
  LET dep == hhmm_to_minutes(r.CRSDepTime)
      arr == hhmm_to_minutes(r.CRSArrTime)
      day == IF arr.v < dep.v THEN r.FlightDate.v + 1 ELSE r.FlightDate.v
  IN tz_localize_utc(Num(day * MinutesPerDay + arr.v))

\* C2: crs_arr_ts_utc is built from FlightDate plus one day when the
\* arrival's minutes after midnight are below the departure's, and from
\* FlightDate itself otherwise.
C2_ArrivalRollsOver ==
  pc \in {"flights_ready", "weather_ready"} =>
    \A i \in 1..Len(flights) :
      LET r == files.flights[i]
      IN (r.FlightDate.t = "num" /\ r.CRSDepTime.t = "num"
          /\ r.CRSArrTime.t = "num")
         => flights[i].crs_arr_ts_utc = RolledArrival(r)

\* the severity of the spec, in 30ths, from the cells of an observation
Or0(c, d) == IF c.t = "num" THEN c.v ELSE d
SpecSeverity(o) ==
  LET wind == Or0(o.sknt, 0)
      v == Or0(o.vsby, 10)
      vis == IF v < 0 THEN 0 ELSE IF v > 10 THEN 10 ELSE v
  IN wind + (30 - 3 * vis)
     + (IF Or0(o.p01i, 0) > 0 THEN 30 ELSE 0)
     + (IF Or0(o.skyl1, 99999) < 1000 THEN 30 ELSE 0)

RegistryHit(i) ==
  \E k \in 1..Len(files.registry) :
    normalize_upper(files.registry[k].n_number)
      = normalize_upper(files.flights[i].Tail_Number)

\* C5: every flight row is kept, and a flight whose tail number matches no
\* registry row carries "Registry Not Found" in every registry column.
C5_RegistrySentinel ==
  pc \in AfterRegistry =>
    /\ Len(flights) = Len(files.flights)
    /\ \A i \in 1..Len(flights) :
         ~RegistryHit(i) =>
           \A c \in RegistryCols : flights[i][c] = "Registry Not Found"

\* C6: system_weather_flag is 1 exactly when the regional index exceeds
\* SYSTEM_INDEX_THRESHOLD or the storm count reaches
\* SYSTEM_STORM_COUNT_THRESHOLD, and 0 otherwise, also for a null index.
C6_SystemFlagIsOr ==
  pc \in AfterRegional =>
    \A i \in 1..Len(flights) :
      LET r == flights[i]
          high == r.regional_weather_index.t = "num"
                  /\ r.regional_weather_index.n
                       > SYSTEM_INDEX_THRESHOLD * r.regional_weather_index.d
          many == r.regional_storm_count >= SYSTEM_STORM_COUNT_THRESHOLD
      IN /\ r.system_weather_flag = (IF high \/ many THEN 1 ELSE 0)
         /\ r.regional_weather_index.t = "nan" => r.system_weather_flag = 0

\* the flag raised by the storm count alone: two storms, a mean of 1.0
C6_Witness ==
  /\ pc = "regional_added"
  /\ \E i \in 1..Len(flights) :
       /\ flights[i].system_weather_flag = 1
       /\ flights[i].regional_storm_count >= SYSTEM_STORM_COUNT_THRESHOLD
       /\ flights[i].regional_weather_index.n
            <= SYSTEM_INDEX_THRESHOLD * flights[i].regional_weather_index.d

\* the observations whose instant falls in the UTC hour of instant t
SameHour(t) ==
  {j \in 1..Len(files.weather) :
     /\ files.weather[j].valid.t = "num"
     /\ t.t = "num"
     /\ files.weather[j].valid.v \div 60 = t.v \div 60}

\* C19: regional_weather_index is the mean severity of the observations of
\* every station in the UTC hour of the scheduled departure, and
\* regional_storm_count the number of them whose severity is at least
\* STORM_SEVERITY_THRESHOLD, 0 when the hour has none; the flight rows are
\* the same in number.
C19_RegionalHourlyMean ==
  pc \in AfterRegional =>
    /\ Len(flights) = Len(files.flights)
    /\ \A i \in 1..Len(flights) :
         LET G == SameHour(flights[i].crs_dep_ts_utc)
             sev == [j \in 1..Len(files.weather) |->
                       SpecSeverity(files.weather[j])]
             index == flights[i].regional_weather_index
         IN /\ flights[i].regional_storm_count
                 = Cardinality({j \in G : sev[j] >= STORM_SEVERITY_THRESHOLD})
            /\ G # {} => /\ index.t = "num"
                          /\ index.n * Cardinality(G) = SumOver(G, sev) * index.d
            /\ G = {} => flights[i].regional_storm_count = 0

\* three observations of three stations in the departure hour, two of
\* them storms: a mean of 120/3 thirtieths
C19_Witness ==
  /\ pc = "regional_added"
  /\ \E i \in 1..Len(flights) :
       LET G == SameHour(flights[i].crs_dep_ts_utc)
       IN /\ Cardinality({files.weather[j].station : j \in G}) = 3
          /\ flights[i].regional_storm_count = 2
          /\ flights[i].regional_weather_index = Idx(120, 3)

\* the pairs (earlier, later) of observations of station s at the same
\* distance from instant t, within the tolerance, with none closer
TiedPairs(s, t) ==
  {p \in Candidates(s) \X Candidates(s) :
     /\ files.weather[p[1]].valid.v < t
     /\ files.weather[p[2]].valid.v > t
     /\ Distance(p[1], t) = Distance(p[2], t)
     /\ Distance(p[1], t) <= WEATHER_TOLERANCE
     /\ \A k \in Candidates(s) : Distance(k, t) >= Distance(p[1], t)}

EarlierOnTie(i, airport_col, time_col, prefix) ==
  LET s == normalize_upper(files.flights[i][airport_col])
      t == flights[i][time_col].v
  IN \A p \in TiedPairs(s, t) :
       /\ Attached(flights[i], prefix, files.weather[p[1]])
       /\ flights[i][Col(prefix, "tmpf")] # files.weather[p[2]].tmpf

\* C20: when an earlier and a later observation of the flight's station
\* are equally distant from the flight instant and within the tolerance,
\* the earlier one is attached.
C20_TieTakesEarlier ==
  /\ pc \in AfterDep =>
       \A i \in 1..Len(flights) :
         (files.flights[i].Origin # NA /\ ~isna(flights[i].crs_dep_ts_utc))
         => EarlierOnTie(i, "Origin", "crs_dep_ts_utc", "dep")
  /\ pc \in AfterArr =>
       \A i \in 1..Len(flights) :
         (files.flights[i].Dest # NA /\ ~isna(flights[i].crs_arr_ts_utc))
         => EarlierOnTie(i, "Dest", "crs_arr_ts_utc", "arr")

\* observations of BWI 30 minutes before and 30 minutes after a departure
C20_Witness ==
  /\ pc = "dep_attached"
  /\ \E i \in 1..Len(flights) :
       /\ files.flights[i].Origin # NA
       /\ ~isna(flights[i].crs_dep_ts_utc)
       /\ \E p \in TiedPairs(normalize_upper(files.flights[i].Origin),
                              flights[i].crs_dep_ts_utc.v) :
            /\ Distance(p[1], flights[i].crs_dep_ts_utc.v) = 30
            /\ flights[i].dep_tmpf = files.weather[p[1]].tmpf

\* C9: building the instants never aborts the batch, and a flight whose
\* instant is null is kept once, unmatched, with null weather values.
C9_NullInstantNeverAborts ==
  /\ pc # "failed"
  /\ pc \in AfterDep =>
       /\ Len(flights) = Len(files.flights)
       /\ \A i \in 1..Len(flights) :
            isna(flights[i].crs_dep_ts_utc) => NoneAttached(flights[i], "dep")

\* C10: a flight whose join key is missing is joined to no observation and
\* to no registry record.
C10_MissingKeyUnmatched ==
  /\ pc \in AfterDep =>
       \A i \in 1..Len(flights) :
         files.flights[i].Origin = NA => NoneAttached(flights[i], "dep")
  /\ pc \in AfterArr =>
       \A i \in 1..Len(flights) :
         files.flights[i].Dest = NA => NoneAttached(flights[i], "arr")
  /\ pc \in AfterRegistry =>
       \A i \in 1..Len(flights) :
         files.flights[i].Tail_Number = NA =>
           \A c \in RegistryCols : flights[i][c] = NA

\* every column prefix_* of row r is the one derived from observation o
DerivedFrom(r, prefix, o) ==
  LET p01i == fillna(to_numeric(o.p01i), 0)
      ceil == to_numeric(o.skyl1)
  IN /\ Attached(r, prefix, o)
     /\ r[Col(prefix, "precip_flag")] = (IF p01i.v > 0 THEN 1 ELSE 0)
     /\ r[Col(prefix, "low_ceiling_flag")] =
          (IF fillna(ceil, DefaultCeiling).v < LowCeilingLimit THEN 1 ELSE 0)
     /\ r[Col(prefix, "weather_severity")] =
          compute_weather_severity(o.sknt, o.vsby, p01i, ceil)

\* the observations of the weather CSV at the station named by cell s, at
\* most WEATHER_TOLERANCE away from instant ts
SideMatches(s, ts) ==
  {files.weather[j] : j \in {k \in 1..Len(files.weather) :
     /\ normalize_upper(files.weather[k].station) = normalize_upper(s)
     /\ files.weather[k].valid.t = "num"
     /\ ts.t = "num"
     /\ Abs(files.weather[k].valid.v - ts.v) <= WEATHER_TOLERANCE}}

\* C21: the arrival invocation of attach_weather_nearest leaves every column
\* the departure invocation produced (and every other column) unchanged and
\* keeps the rows; its arr_ columns come from an observation at the
\* destination near the arrival instant, or from none; after both
\* invocations no row has a column tmpf, sknt, vsby, p01i, skyl1, gust,
\* wxcodes or _row_id.
C21_SidesIndependent ==
  /\ [](pc \in AfterArr =>
         \A i \in 1..Len(flights) :
           /\ DOMAIN flights[i] \cap {"tmpf", "sknt", "vsby", "p01i", "skyl1",
                                       "gust", "wxcodes", "_row_id"} = {}
           /\ \E o \in SideMatches(files.flights[i].Dest,
                                    flights[i].crs_arr_ts_utc) \cup {NoWeather} :
                DerivedFrom(flights[i], "arr", o))
  /\ [][(pc = "dep_attached" /\ pc' = "arr_attached") =>
          /\ Len(flights') = Len(flights)
          /\ \A i \in 1..Len(flights) :
               \A c \in DOMAIN flights[i] :
                 c \in DOMAIN flights'[i] /\ flights'[i][c] = flights[i][c]]_vars

\* a flight matched on both sides, to different observations
C21_Witness ==
  /\ pc = "arr_attached"
  /\ \E i \in 1..Len(flights) :
       /\ flights[i].dep_tmpf # NaN
       /\ flights[i].arr_tmpf # NaN
       /\ flights[i].dep_tmpf # flights[i].arr_tmpf
       /\ flights[i].dep_wind # flights[i].arr_wind

\* the flight of row i has no weather match on the side of airport_col: its
\* key or its instant is null, or its station has no observation within
\* WEATHER_TOLERANCE
NoMatch(i, airport_col, time_col) ==
  \/ files.flights[i][airport_col] = NA
  \/ isna(flights[i][time_col])
  \/ \A j \in Candidates(normalize_upper(files.flights[i][airport_col])) :
       Distance(j, flights[i][time_col].v) > WEATHER_TOLERANCE

ZeroFlags(r, prefix) ==
  /\ r[Col(prefix, "precip_flag")] = 0
  /\ r[Col(prefix, "low_ceiling_flag")] = 0
  /\ r[Col(prefix, "weather_severity")] = Num(0)

\* C26: a flight without a weather match has precip_flag 0, low_ceiling_flag
\* 0 and weather_severity 0.0, never null, on both sides.
C26_UnmatchedZeroFlags ==
  /\ pc \in AfterDep =>
       \A i \in 1..Len(flights) :
         NoMatch(i, "Origin", "crs_dep_ts_utc") => ZeroFlags(flights[i], "dep")
  /\ pc \in AfterArr =>
       \A i \in 1..Len(flights) :
         NoMatch(i, "Dest", "crs_arr_ts_utc") => ZeroFlags(flights[i], "arr")

---------------------------------------------------------------------------
(* extract_features_opensky_data.py: telemetry features *)

MaxRows == 3       \* rows of the raw state-vector CSV

\* twice the median of a non-empty sequence of integers
Median2(xs) ==
  LET sorted == StableSort(xs, [i \in DOMAIN xs |-> [j \in DOMAIN xs |->
                               xs[i] < xs[j]]])
      n == Len(sorted)
  IN IF n % 2 = 1 THEN 2 * sorted[(n + 1) \div 2]
     ELSE sorted[n \div 2] + sorted[(n \div 2) + 1]

\* pd.to_datetime(pd.to_numeric(time, errors="coerce"), unit="s"): the
\* files of the model hold epoch seconds, whose median is below the 1e12
\* above which the script reads milliseconds; an instant is a number of
\* seconds, and a cell that does not parse is NaT
to_instant(c) == to_numeric(c)

KeyLess(a, b) ==
  \/ StrLess(a.icao24, b.icao24)
  \/ (a.icao24 = b.icao24 /\ a.time.v < b.time.v)

GrainOf(r) == <<r.icao24, r.time>>

\* the data columns of a state vector, the index columns set aside
StateCols == {"lat", "lon", "velocity", "geoaltitude", "vertrate", "heading"}

\* df.sort_values(["icao24", "time"]), and sort_index on the same keys
sort_grain(rows) ==
  StableSort(rows, [i \in DOMAIN rows |-> [j \in DOMAIN rows |->
                      KeyLess(rows[i], rows[j])]])

\* df.drop_duplicates(subset=["icao24", "time"]): keep="first" by default
drop_duplicate_grain(rows) ==
  drop_duplicates_first(rows, [i \in DOMAIN rows |-> GrainOf(rows[i])])

\* DataFrame.ffill(): each column takes the last value above it in the
\* frame, whatever the index of that row
ffill(rows) ==
  LET last(i, col) ==
        LET above == {j \in 1..i : ~isna(rows[j][col])}
        IN IF above = {} THEN NaN ELSE rows[Max(above)][col]
  IN [i \in 1..Len(rows) |->
        [col \in DOMAIN rows[i] |->
           IF col \in StateCols THEN last(i, col) ELSE rows[i][col]]]

\* df[df[col] >= 0]: a NaN compares False
at_least_zero(rows, col) ==
  SelectRows(rows, {i \in 1..Len(rows) :
                      rows[i][col].t = "num" /\ rows[i][col].v >= 0}, 1)

features_10s == {"lat", "lon", "velocity", "geoaltitude", "vertrate", "heading"}
features_1min == {"velocity", "geoaltitude", "vertrate"}
stats == {"mean", "std", "min", "max", "median", "count"}
WindowSeconds(win) == IF win = "10s" THEN 10 ELSE 60
Triples ==
  {<<c, st, "10s">> : c \in features_10s, st \in stats}
  \cup {<<c, st, "1min">> : c \in features_1min, st \in stats}
Col3(tr) == tr[1] \o "_" \o tr[2] \o "_" \o tr[3]

\* a ratio n/d kept exactly
Ratio(n, d) == [t |-> "num", n |-> n, d |-> d]
RatioNaN == [t |-> "nan", n |-> 0, d |-> 1]

\* one statistic over the non-null cells xs (a sequence of integers):
\* mean as sum/count, std as its square (the sample variance, ddof = 1),
\* median as twice its value over 2
Statistic(st, xs) ==
  LET n == Len(xs)
      idx == 1..n
      val == [i \in idx |-> xs[i]]
      sq == [i \in idx |-> xs[i] * xs[i]]
      sum == SumOver(idx, val)
  IN CASE st = "count" -> Ratio(n, 1)
       [] st = "mean" -> IF n = 0 THEN RatioNaN ELSE Ratio(sum, n)
       [] st = "std" -> IF n < 2 THEN RatioNaN
                        ELSE Ratio(n * SumOver(idx, sq) - sum * sum, n * (n - 1))
       [] st = "min" -> IF n = 0 THEN RatioNaN ELSE Ratio(Min(SeqToSet(xs)), 1)
       [] st = "max" -> IF n = 0 THEN RatioNaN ELSE Ratio(Max(SeqToSet(xs)), 1)
       [] st = "median" -> IF n = 0 THEN RatioNaN ELSE Ratio(Median2(xs), 2)

CellsOf(rows, G, col) ==
  LET sel == SelectRows(rows, {j \in G : ~isna(rows[j][col])}, 1)
  IN [k \in 1..Len(sel) |-> sel[k][col].v]

\* the rows whose statistic Resampler.transform gives row i: those of its
\* bin [k*W, (k+1)*W) counted from the epoch; within its entity when the
\* transform is applied per group of the groupby, of every entity when the
\* resampler's transform regroups the whole column by the time grouper alone
resample_group(rows, i, win, scope) ==
  {j \in 1..Len(rows) :
     /\ rows[j].time.v \div WindowSeconds(win) = rows[i].time.v \div WindowSeconds(win)
     /\ (scope = "entity" => rows[j].icao24 = rows[i].icao24)}

\* the loop with new_col = f"{col}_{stat_name}": the 1min statistic of a
\* field overwrites its 10s statistic
add_features_unsuffixed(rows, scope) ==
  [i \in 1..Len(rows) |->
     rows[i] @@
     [name \in {tr[1] \o "_" \o tr[2] : tr \in Triples} |->
        LET tr == CHOOSE x \in Triples :
                    /\ x[1] \o "_" \o x[2] = name
                    /\ (x[1] \in features_1min => x[3] = "1min")
        IN Statistic(tr[2],
             CellsOf(rows, resample_group(rows, i, tr[3], scope), tr[1]))]]

\* the loop over windows, columns and statistics: one new column each
add_features(rows, scope) ==
  [i \in 1..Len(rows) |->
     rows[i] @@
     [name \in {Col3(tr) : tr \in Triples} |->
        LET tr == CHOOSE x \in Triples : Col3(x) = name
        IN Statistic(tr[2],
             CellsOf(rows, resample_group(rows, i, tr[3], scope), tr[1]))]]

StatePool ==
  {[icao24 |-> e, time |-> Num(t)] : e \in {"a", "b"}, t \in {0, 5, 10, 12}}

\* the rows of the raw CSV: the altitude of a row tells its position in the
\* file; the sample of "b" at 0 has no velocity and the sample of "a" at 0
\* no vertical rate
RawStates(keys) ==
  [i \in 1..Len(keys) |->
     keys[i] @@ [velocity |-> IF keys[i].icao24 = "b" /\ keys[i].time.v = 0
                              THEN NaN ELSE Num(10 * i),
                 geoaltitude |-> Num(100 + i),
                 vertrate |-> IF keys[i].icao24 = "a" /\ keys[i].time.v = 0
                              THEN NaN ELSE Num(i),
                 lat |-> Num(39), lon |-> Num(i), heading |-> Num(90)]]

InitFeat ==
  /\ \E keys \in SeqsUpTo(StatePool, MaxRows) :
       files = [NoFiles EXCEPT !.states = RawStates(keys)]
  /\ tpc = "start"
  /\ df = <<>>
  /\ binScope \in {"entity", "all"}
  /\ pc = "idle" /\ flights = <<>> /\ weather = <<>> /\ out_csv = <<>>
  /\ DimIdle
  /\ FaaIdle
  /\ BtsIdle
  /\ PullIdle

FeatOthers ==
  UNCHANGED <<files, pc, flights, weather, out_csv, binScope, dpc, dim, faa,
              bts, pull>>

\* read the CSV and convert the epoch column
ConvertTime ==
  /\ tpc = "start"
  /\ LET raw == files.states
     IN df' = [i \in 1..Len(raw) |-> [raw[i] EXCEPT !.time = to_instant(@)]]
  /\ tpc' = "converted"
  /\ FeatOthers

\* sort and de-duplicate at the grain (icao24, time)
SortDedup ==
  /\ tpc = "converted"
  /\ df' = drop_duplicate_grain(sort_grain(df))
  /\ tpc' = "deduped"
  /\ FeatOthers

\* set the index, forward-fill, keep non-negative velocity and altitude
Clean ==
  /\ tpc = "deduped"
  /\ df' = at_least_zero(at_least_zero(ffill(sort_grain(df)), "velocity"),
                         "geoaltitude")
  /\ tpc' = "cleaned"
  /\ FeatOthers

\* the resampled statistics, as columns
AddFeatures ==
  /\ tpc = "cleaned"
  /\ df' = add_features(df, binScope)
  /\ tpc' = "featured"
  /\ FeatOthers

\* reset the index and write the CSV
WriteFeatures ==
  /\ tpc = "featured"
  /\ tpc' = "done"
  /\ UNCHANGED df
  /\ FeatOthers

NextFeat ==
  \/ ConvertTime
  \/ SortDedup
  \/ Clean
  \/ AddFeatures
  \/ WriteFeatures

SpecFeat == InitFeat /\ [][NextFeat]_vars

---------------------------------------------------------------------------
(* Properties of the telemetry features *)

\* the rows of the same entity within the trailing window of width W that
\* ends at, and includes, the instant of row i
TrailingGroup(rows, i, win) ==
  {j \in 1..Len(rows) :
     /\ rows[j].icao24 = rows[i].icao24
     /\ rows[j].time.v <= rows[i].time.v
     /\ rows[j].time.v >= rows[i].time.v - WindowSeconds(win)}

\* C3: every column <field>_<stat>_<window> of every row is the statistic
\* over the samples of the row's entity in the trailing window that ends at
\* the row's instant.
C3_TrailingWindowStatistics ==
  tpc \in {"featured", "done"} =>
    \A i \in 1..Len(df) : \A tr \in Triples :
      df[i][Col3(tr)]
        = Statistic(tr[2], CellsOf(df, TrailingGroup(df, i, tr[3]), tr[1]))

FilePositions(key) ==
  {p \in 1..Len(files.states) :
     <<files.states[p].icao24, to_instant(files.states[p].time)>> = key}

FileKeys ==
  {<<files.states[p].icao24, to_instant(files.states[p].time)>> :
     p \in 1..Len(files.states)}

SurvivorIs(key, p) ==
  /\ Cardinality({i \in 1..Len(df) : GrainOf(df[i]) = key}) = 1
  /\ \A i \in 1..Len(df) :
       GrainOf(df[i]) = key => df[i].geoaltitude = files.states[p].geoaltitude

\* C7: after the de-duplication every (icao24, instant) pair is in exactly
\* one row, the last of its rows in the file.
C7_LastWriteWins ==
  tpc = "deduped" =>
    /\ Len(df) = Cardinality(FileKeys)
    /\ \A key \in FileKeys : SurvivorIs(key, Max(FilePositions(key)))

\* the rows of df that are the only row of their entity
SingleTimestamp ==
  {i \in 1..Len(df) :
     Cardinality({j \in 1..Len(df) : df[j].icao24 = df[i].icao24}) = 1}

\* C11: for an entity with a single timestamp every windowed standard
\* deviation column is null and every windowed count column equals 1.
C11_SingleTimestampStdCount ==
  tpc \in {"featured", "done"} =>
    \A i \in SingleTimestamp : \A tr \in Triples :
      /\ tr[2] = "std" => df[i][Col3(tr)] = RatioNaN
      /\ tr[2] = "count" => df[i][Col3(tr)] = Ratio(1, 1)

NewColumns == {Col3(tr) : tr \in Triples}

\* C12: the feature step adds exactly one column per (field, statistic,
\* window) triple, 6 x 6 for 10s and 3 x 6 for 1min, keeps the rows and
\* leaves the value of every column the rows already had.
C12_FeaturesEnrichOnly ==
  [][(tpc = "cleaned" /\ tpc' = "featured") =>
       /\ Len(df') = Len(df)
       /\ Cardinality(NewColumns) = 6 * 6 + 3 * 6
       /\ \A i \in 1..Len(df) :
            /\ DOMAIN df[i] \cap NewColumns = {}
            /\ DOMAIN df'[i] = DOMAIN df[i] \cup NewColumns
            /\ \A c \in DOMAIN df[i] : df'[i][c] = df[i][c]]_vars

\* three rows of two entities, enriched
C12_Witness ==
  /\ tpc = "featured"
  /\ Len(df) = MaxRows
  /\ \E i, j \in 1..Len(df) : df[i].icao24 # df[j].icao24
  /\ "vertrate_median_1min" \in DOMAIN df[1]

\* the first row of the raw CSV with the key of row r
FirstRaw(r) ==
  files.states[Min({j \in 1..Len(files.states) :
                      /\ files.states[j].icao24 = r.icao24
                      /\ files.states[j].time = r.time})]

\* the value of col at the latest sample of r's entity, at or before r's
\* instant, that has one; NaN without such a sample
FilledWithinEntity(r, col) ==
  LET own == {j \in 1..Len(files.states) :
                /\ files.states[j].icao24 = r.icao24
                /\ files.states[j].time.v <= r.time.v
                /\ ~isna(FirstRaw(files.states[j])[col])}
      latest == {j \in own : \A k \in own :
                   files.states[k].time.v <= files.states[j].time.v}
  IN IF own = {} THEN NaN
     ELSE FirstRaw(files.states[CHOOSE j \in latest : TRUE])[col]

\* C25: after the forward fill every field of a sample is its own value or,
\* when that is missing, the value of the latest earlier sample of the same
\* entity; never a value of another entity.
C25_FillWithinEntity ==
  tpc = "cleaned" =>
    \A i \in 1..Len(df) : \A col \in StateCols :
      df[i][col] = FilledWithinEntity(df[i], col)

---------------------------------------------------------------------------
(* get_faa_flight_reg.py: the registry dimension keyed by icao24 *)

MaxRecs == 2       \* records of the parsed MASTER file

\* A transponder code is a sequence of characters.
HexDigits == <<"0", "1", "2", "3", "4", "5", "6", "7", "8", "9",
               "a", "b", "c", "d", "e", "f">>
IcaoWidth == 6

\* str.lower left out
lower_unchanged(ch) == ch

lower(ch) ==
  CASE ch = "A" -> "a" [] ch = "B" -> "b" [] ch = "C" -> "c"
    [] ch = "D" -> "d" [] ch = "E" -> "e" [] ch = "F" -> "f"
    [] ch = "X" -> "x" [] ch = "G" -> "g" [] OTHER -> ch

RECURSIVE lstrip(_)
lstrip(x) == IF x # <<>> /\ Head(x) = " " THEN lstrip(Tail(x)) ELSE x

RECURSIVE rstrip(_)
rstrip(x) ==
  IF x # <<>> /\ x[Len(x)] = " " THEN rstrip(SubSeq(x, 1, Len(x) - 1)) ELSE x

RECURSIVE zfill(_, _)
zfill(x, width) == IF Len(x) >= width THEN x ELSE zfill(<<"0">> \o x, width)

None == <<"None">>

\* norm_icao24: None, or the lower-case hexadecimal digits of x after
\* dropping a leading "0x", left-padded with zeros to 6 characters
norm_icao24(x) ==
  IF x = None \/ x = <<>> THEN None
  ELSE LET x1 == rstrip(lstrip(x))
           x2 == [i \in 1..Len(x1) |-> lower(x1[i])]
           x3 == IF Len(x2) >= 2 /\ x2[1] = "0" /\ x2[2] = "x"
                 THEN SubSeq(x2, 3, Len(x2)) ELSE x2
           x4 == SelectRows(x3, {i \in 1..Len(x3) :
                                   x3[i] \in SeqToSet(HexDigits)}, 1)
       IN IF x2 = <<>> \/ x4 = <<>> THEN None ELSE zfill(x4, IcaoWidth)

\* build_aircraft_dim: one row per record whose code normalises
build_aircraft_dim(master) ==
  LET rows == [i \in 1..Len(master) |->
                 [icao24 |-> norm_icao24(master[i].transponder_code_hex),
                  unique_regulatory_id |-> master[i].unique_regulatory_id,
                  last_action_date |-> master[i].last_action_date]]
  IN SelectRows(rows, {i \in 1..Len(rows) : rows[i].icao24 # None}, 1)

HexRank(ch) == CHOOSE i \in 1..Len(HexDigits) : HexDigits[i] = ch

RECURSIVE CodeLess(_, _)
CodeLess(a, b) ==
  IF b = <<>> THEN FALSE
  ELSE IF a = <<>> THEN TRUE
  ELSE IF Head(a) # Head(b) THEN HexRank(Head(a)) < HexRank(Head(b))
  ELSE CodeLess(Tail(a), Tail(b))

\* the order of sort_values(["icao24", "last_action_date"],
\* na_position="last"): a missing date sorts after every date of its key
DimLess(a, b) ==
  \/ CodeLess(a.icao24, b.icao24)
  \/ /\ a.icao24 = b.icao24
     /\ ~isna(a.last_action_date)
     /\ (isna(b.last_action_date)
         \/ a.last_action_date.v < b.last_action_date.v)

\* sort by (icao24, last_action_date), then drop_duplicates(keep="last")
dedup_dim(rows) ==
  LET sorted == StableSort(rows, [i \in DOMAIN rows |-> [j \in DOMAIN rows |->
                                    DimLess(rows[i], rows[j])]])
  IN drop_duplicates_last(sorted, [i \in DOMAIN sorted |-> sorted[i].icao24])

\* "A1", "0xa1", " b2", None, "0XG1 ", "1234567", "xg", " ", ""
CodePool ==
  {<<"A", "1">>, <<"0", "x", "a", "1">>, <<" ", "b", "2">>, None,
   <<"0", "X", "G", "1", " ">>, <<"1", "2", "3", "4", "5", "6", "7">>,
   <<"x", "g">>, <<" ">>, <<>>}
DatePool == {NaN, Num(1), Num(2)}

\* the parsed MASTER records, in file order, numbered by position
MasterOf(recs) ==
  [i \in 1..Len(recs) |->
     [transponder_code_hex |-> recs[i][1], last_action_date |-> recs[i][2],
      unique_regulatory_id |-> i]]

InitDim ==
  /\ \E recs \in SeqsUpTo(CodePool \X DatePool, MaxRecs) :
       files = [NoFiles EXCEPT !.master = MasterOf(recs)]
  /\ dpc = "parsed"
  /\ dim = <<>>
  /\ pc = "idle" /\ flights = <<>> /\ weather = <<>> /\ out_csv = <<>>
  /\ TelemetryIdle
  /\ FaaIdle
  /\ BtsIdle
  /\ PullIdle

DimOthers ==
  UNCHANGED <<files, pc, flights, weather, out_csv, tpc, df, binScope, faa,
              bts, pull>>

\* the dimension rows and the DataFrame made of them
BuildDim ==
  /\ dpc = "parsed"
  /\ dim' = build_aircraft_dim(files.master)
  /\ dpc' = "built"
  /\ DimOthers

\* drop duplicates on icao24; a DataFrame of no rows has no icao24 column
\* and drop_duplicates raises KeyError
DedupDim ==
  /\ dpc = "built"
  /\ IF dim = <<>>
     THEN dpc' = "failed" /\ dim' = dim
     ELSE dpc' = "deduped" /\ dim' = dedup_dim(dim)
  /\ DimOthers

\* to_parquet, to_csv
WriteDim ==
  /\ dpc = "deduped"
  /\ dpc' = "done"
  /\ UNCHANGED dim
  /\ DimOthers

NextDim ==
  \/ BuildDim
  \/ DedupDim
  \/ WriteDim

SpecDim == InitDim /\ [][NextDim]_vars

---------------------------------------------------------------------------
(* Properties of the registry dimension *)

\* what Python's norm_icao24 returns for the codes of CodePool
ExpectedNorm(x) ==
  CASE x = <<"A", "1">> -> <<"0", "0", "0", "0", "a", "1">>
    [] x = <<"0", "x", "a", "1">> -> <<"0", "0", "0", "0", "a", "1">>
    [] x = <<" ", "b", "2">> -> <<"0", "0", "0", "0", "b", "2">>
    [] x = <<"0", "X", "G", "1", " ">> -> <<"0", "0", "0", "0", "0", "1">>
    [] x = <<"1", "2", "3", "4", "5", "6", "7">> ->
         <<"1", "2", "3", "4", "5", "6", "7">>
    [] OTHER -> None

IsLowerHex(y) == \A k \in 1..Len(y) : y[k] \in SeqToSet(HexDigits)

DimBuilt == {"built", "deduped", "done"}

\* C23: norm_icao24 trims, lower-cases, drops a leading "0x", keeps the
\* hexadecimal characters and left-pads with zeros to 6; it returns None for
\* an empty code and for a code without a hexadecimal character; and it is
\* idempotent: applied to a key it produced it returns that key.
C23_NormIdempotent ==
  /\ norm_icao24(None) = None
  /\ dpc = "built" =>
       \A j \in 1..Len(files.master) :
         LET y == ExpectedNorm(files.master[j].transponder_code_hex)
             rows == {i \in 1..Len(dim) : dim[i].unique_regulatory_id = j}
         IN IF y = None THEN rows = {}
            ELSE /\ Cardinality(rows) = 1
                 /\ \A i \in rows : dim[i].icao24 = y
  /\ dpc \in DimBuilt =>
       \A i \in 1..Len(dim) :
         /\ IsLowerHex(dim[i].icao24)
         /\ Len(dim[i].icao24) >= IcaoWidth
         /\ norm_icao24(dim[i].icao24) = dim[i].icao24

\* an upper-case code with a prefix, a foreign character and a trailing
\* blank is emitted as a padded key, next to a code without any
\* hexadecimal character, which is not emitted
C23_Witness ==
  /\ dpc = "built"
  /\ Len(files.master) = 2
  /\ files.master[1].transponder_code_hex = <<"0", "X", "G", "1", " ">>
  /\ files.master[2].transponder_code_hex = <<"x", "g">>
  /\ Len(dim) = 1
  /\ dim[1].icao24 = <<"0", "0", "0", "0", "0", "1">>

\* C24: every icao24 build_aircraft_dim emits is exactly 6 lower-case
\* hexadecimal characters.
C24_SixLowerHex ==
  dpc \in DimBuilt =>
    \A i \in 1..Len(dim) :
      IsLowerHex(dim[i].icao24) /\ Len(dim[i].icao24) = IcaoWidth

RecordsOf(code) ==
  {j \in 1..Len(files.master) :
     norm_icao24(files.master[j].transponder_code_hex) = code}

MasterCodes ==
  {norm_icao24(files.master[j].transponder_code_hex) :
     j \in 1..Len(files.master)} \ {None}

\* C8: the registry join keeps one row per flight, and after the
\* de-duplication of the dimension one record survives per icao24, the one
\* with the most recent last_action_date among the key's records whenever
\* one of them has a last_action_date.
C8_OneLatestPerKey ==
  /\ pc \in AfterRegistry => Len(flights) = Len(files.flights)
  /\ dpc \in {"deduped", "done"} =>
    \A code \in MasterCodes :
      LET kept == {i \in 1..Len(dim) : dim[i].icao24 = code}
          dates == {files.master[j].last_action_date.v :
                      j \in {k \in RecordsOf(code) :
                               ~isna(files.master[k].last_action_date)}}
      IN /\ Cardinality(kept) = 1
         /\ dates # {} =>
              \A i \in kept : dim[i].last_action_date = Num(Max(dates))

---------------------------------------------------------------------------
(* get_faa_flight_reg.py: main from the cache test to the parsed archive.  *)
(* faa.zip is the file at ZIP_PATH and faa.part the file at ZIP_PATH +     *)
(* ".part"; faa.zip0 remembers the archive found at the start; sizes are   *)
(* bytes and ages seconds.                                                 *)

MaxChunks == 2        \* chunks of the longest response body

MAX_AGE_HOURS == 48
MinZipBytes == 5000000
SecondsPerHour == 3600
DefaultAttempts == 6
InitialBackoff == 5
BackoffFactor == 2
ChunkBytes == 2097152

\* a freshness test without the size check
is_fresh_file_any_size(f, max_age_hours) ==
  f.exists /\ f.age < max_age_hours * SecondsPerHour

\* is_fresh_file(path, max_age_hours), f being the file at path
is_fresh_file(f, max_age_hours) ==
  /\ f.exists
  /\ ~(f.size < MinZipBytes)
  /\ f.age < max_age_hours * SecondsPerHour

\* a backoff that grows by its first value instead: 5, 10, 15, ...
next_backoff_linear(b) == b + InitialBackoff

\* backoff *= 2
next_backoff(b) == b * BackoffFactor

\* a test that no attempt of the loop passes: the last error is swallowed
is_last_attempt_beyond(i, attempts) == i = attempts + 1

\* if i == attempts: raise
is_last_attempt(i, attempts) == i = attempts

\* a write that streams into out_path itself
write_chunk_in_place(d) ==
  [zip |-> [exists |-> TRUE, size |-> (d.part.chunks + 1) * ChunkBytes,
            age |-> 0, ok |-> FALSE, gen |-> "new"],
   part |-> [d.part EXCEPT !.chunks = @ + 1]]

\* f.write(chunk) of the with-block: the chunk goes to tmp_path
write_chunk(d) ==
  [zip |-> d.zip, part |-> [d.part EXCEPT !.chunks = @ + 1]]

\* the except clause without the removal of the temporary file
after_transient_keeps_part(f) ==
  LET counted == [f EXCEPT !.failed = @ + 1]
  IN IF is_last_attempt(f.i, f.attempts)
     THEN [counted EXCEPT !.pc = "raised", !.err = "transient"]
     ELSE [counted EXCEPT !.sleeps = Append(@, f.backoff),
                          !.backoff = next_backoff(@),
                          !.i = @ + 1, !.pc = "attempt"]

\* the except clause of a transient error: remove the temporary file,
\* re-raise on the last attempt, else sleep and double the backoff
after_transient(f) ==
  LET cleaned == [f EXCEPT !.part = NoPart, !.failed = @ + 1]
  IN IF is_last_attempt(f.i, f.attempts)
     THEN [cleaned EXCEPT !.pc = "raised", !.err = "transient"]
     ELSE [cleaned EXCEPT !.sleeps = Append(@, f.backoff),
                          !.backoff = next_backoff(@),
                          !.i = @ + 1, !.pc = "attempt"]

\* a check that only opens the file, without testzip
validate_zip_exists_only(f) == f.exists

\* validate_zip(path) returns: the file opens as a ZIP and testzip finds no
\* bad member
validate_zip(f) == f.exists /\ f.ok

AttemptsPool == {0, 1, 2, DefaultAttempts}
ZipPool ==
  {NoFile} \cup
  {[exists |-> TRUE, size |-> sz, age |-> a, ok |-> k, gen |-> "old"] :
     sz \in {MinZipBytes - 1, MinZipBytes, MinZipBytes + 1},
     a \in {0, MAX_AGE_HOURS * SecondsPerHour - 1,
            MAX_AGE_HOURS * SecondsPerHour},
     k \in BOOLEAN}
PartPool == {NoPart, [exists |-> TRUE, chunks |-> 1]}

\* the MASTER file of the archive the registry serves
BaseMaster ==
  MasterOf(<<<<<<"A", "1">>, Num(1)>>, <<<<"0", "x", "a", "1">>, Num(2)>>>>)

InitFaa ==
  /\ files = [NoFiles EXCEPT !.master = BaseMaster]
  /\ \E n \in AttemptsPool, z \in ZipPool, p \in PartPool :
       faa = [FaaStopped EXCEPT !.pc = "start", !.attempts = n, !.zip = z,
                                !.zip0 = z, !.part = p]
  /\ dpc = "idle" /\ dim = <<>>
  /\ pc = "idle" /\ flights = <<>> /\ weather = <<>> /\ out_csv = <<>>
  /\ TelemetryIdle
  /\ BtsIdle
  /\ PullIdle

FaaOthers ==
  UNCHANGED <<files, pc, flights, weather, out_csv, tpc, df, binScope, dim,
              bts, pull>>

\* main: reuse the cached archive or call download_with_retries
CheckCache ==
  /\ faa.pc = "start"
  /\ IF is_fresh_file(faa.zip, MAX_AGE_HOURS)
     THEN faa' = [faa EXCEPT !.pc = "validate"]
     ELSE faa' = [faa EXCEPT !.pc = "attempt", !.called = TRUE, !.i = 1,
                             !.backoff = InitialBackoff]
  /\ UNCHANGED dpc
  /\ FaaOthers

\* the for loop ends without a download: the function returns
LoopEnds ==
  /\ faa.pc = "attempt"
  /\ faa.i > faa.attempts
  /\ faa' = [faa EXCEPT !.pc = "validate"]
  /\ UNCHANGED dpc
  /\ FaaOthers

\* requests.get and raise_for_status of attempt i: the response arrives, a
\* transient error is raised, or an HTTP error status, which is not caught
Request ==
  /\ faa.pc = "attempt"
  /\ faa.i <= faa.attempts
  /\ LET sent == [faa EXCEPT !.requests = @ + 1]
     IN \/ \E n \in 1..MaxChunks :
             faa' = [sent EXCEPT !.pc = "streaming", !.body = n,
                                 !.part = [exists |-> TRUE, chunks |-> 0]]
        \/ faa' = after_transient(sent)
        \/ faa' = [sent EXCEPT !.pc = "raised", !.err = "http"]
  /\ UNCHANGED dpc
  /\ FaaOthers

\* one chunk of the body is written
WriteChunk ==
  /\ faa.pc = "streaming"
  /\ faa.part.chunks < faa.body
  /\ LET d == write_chunk([zip |-> faa.zip, part |-> faa.part])
     IN faa' = [faa EXCEPT !.zip = d.zip, !.part = d.part]
  /\ UNCHANGED dpc
  /\ FaaOthers

\* the stream breaks with a read timeout, a connection error or a chunked
\* encoding error
StreamFails ==
  /\ faa.pc = "streaming"
  /\ faa' = after_transient(faa)
  /\ UNCHANGED dpc
  /\ FaaOthers

\* an error the except clause does not name (a full disk, an interrupt)
\* leaves the function at once
StreamAborts ==
  /\ faa.pc = "streaming"
  /\ faa' = [faa EXCEPT !.pc = "raised", !.err = "other"]
  /\ UNCHANGED dpc
  /\ FaaOthers

\* the body is complete: os.replace(tmp_path, out_path) and return
Finish ==
  /\ faa.pc = "streaming"
  /\ faa.part.chunks = faa.body
  /\ \E k \in BOOLEAN :
       faa' = [faa EXCEPT !.pc = "validate", !.won = faa.i, !.part = NoPart,
                 !.zip = [exists |-> TRUE, size |-> faa.part.chunks * ChunkBytes,
                          age |-> 0, ok |-> k, gen |-> "new"]]
  /\ UNCHANGED dpc
  /\ FaaOthers

\* validate_zip(ZIP_PATH)
ValidateZip ==
  /\ faa.pc = "validate"
  /\ IF validate_zip(faa.zip)
     THEN faa' = [faa EXCEPT !.pc = "validated", !.validated = TRUE]
     ELSE faa' = [faa EXCEPT !.pc = "raised", !.err = "invalid"]
  /\ UNCHANGED dpc
  /\ FaaOthers

\* read_faa_zip: ACFTREF, ENGINE and MASTER are parsed
ReadZip ==
  /\ faa.pc = "validated"
  /\ faa' = [faa EXCEPT !.pc = "read"]
  /\ dpc' = "parsed"
  /\ FaaOthers

NextFaa ==
  \/ CheckCache
  \/ LoopEnds
  \/ Request
  \/ WriteChunk
  \/ StreamFails
  \/ StreamAborts
  \/ Finish
  \/ ValidateZip
  \/ ReadZip
  \/ BuildDim
  \/ DedupDim
  \/ WriteDim

SpecFaa == InitFaa /\ [][NextFaa]_vars

---------------------------------------------------------------------------
(* Properties of the registry download *)

\* C13: download_with_retries issues at most `attempts` requests; the k-th
\* sleep lasts 5 * 2^(k-1) seconds and follows the transient failure of
\* attempt k < attempts, attempt k+1 starting after it; once an attempt
\* has succeeded there is no further request and no further sleep.
C13_BoundedRetriesBackoff ==
  faa.pc # "idle" =>
    /\ faa.requests <= faa.attempts
    /\ \A k \in 1..Len(faa.sleeps) : faa.sleeps[k] = 5 * 2^(k - 1)
    /\ Len(faa.sleeps) = (IF faa.err = "transient" THEN faa.failed - 1
                          ELSE faa.failed)
    /\ faa.pc = "attempt" =>
         faa.requests = faa.i - 1 /\ Len(faa.sleeps) = faa.i - 1
    /\ faa.pc = "streaming" =>
         faa.requests = faa.i /\ Len(faa.sleeps) = faa.i - 1
    /\ faa.won > 0 =>
         /\ faa.requests = faa.won
         /\ Len(faa.sleeps) = faa.won - 1
         /\ faa.pc \notin {"attempt", "streaming"}

\* the sixth attempt succeeds after five sleeps, and main has gone on
C13_Witness ==
  /\ faa.won = DefaultAttempts
  /\ faa.sleeps = <<5, 10, 20, 40, 80>>
  /\ faa.pc = "read"

\* C14: when every attempt fails with a transient error, the last error
\* leaves download_with_retries with no sleep after it, and main neither
\* validates, nor parses, nor writes.
C14_ExhaustedRetriesPropagate ==
  (faa.attempts >= 1 /\ faa.failed = faa.attempts) =>
    /\ faa.pc = "raised"
    /\ faa.err = "transient"
    /\ Len(faa.sleeps) = faa.attempts - 1
    /\ ~faa.validated
    /\ dpc = "idle"
    /\ dim = <<>>

\* six transient failures, the last of them while streaming
C14_Witness ==
  /\ faa.attempts = DefaultAttempts
  /\ faa.failed = DefaultAttempts
  /\ faa.requests = DefaultAttempts
  /\ faa.body > 0

\* C15: the file at out_path changes only by the rename of a completely
\* streamed temporary file; until an attempt has succeeded, also during
\* and after a failed or interrupted attempt, out_path is absent or holds
\* the content it had.
C15_FinalPathOnlyRenamed ==
  /\ [](faa.won = 0 => faa.zip = faa.zip0)
  /\ [][faa.zip' # faa.zip =>
          /\ faa.pc = "streaming"
          /\ faa.part.exists
          /\ faa.part.chunks = faa.body
          /\ faa.zip'.exists
          /\ faa.zip'.size = faa.body * ChunkBytes
          /\ ~faa.part'.exists]_vars

\* an attempt interrupted after one chunk of two, the old archive in place
C15_Witness ==
  /\ faa.pc = "raised"
  /\ faa.err = "other"
  /\ faa.part.exists
  /\ faa.part.chunks = 1
  /\ faa.body = MaxChunks
  /\ faa.zip0.exists
  /\ faa.zip = faa.zip0

\* the archive main ends up using is the cached one when no download was
\* called for, and a newly downloaded one otherwise
UsesRightArchive ==
  (faa.validated /\ faa.attempts >= 1) =>
    IF faa.called THEN faa.won > 0 /\ faa.zip.gen = "new"
    ELSE faa.zip = faa.zip0

\* C17 as stated: the cached archive is reused, with no download, exactly
\* when it exists, is younger than MAX_AGE_HOURS and is larger than
\* 5,000,000 bytes; otherwise main downloads before use.
C17_ReusedIffLargerThanMinimum ==
  faa.pc \notin {"idle", "start"} =>
    /\ ~faa.called <=>
         /\ faa.zip0.exists
         /\ faa.zip0.age < MAX_AGE_HOURS * SecondsPerHour
         /\ faa.zip0.size > 5000000
    /\ UsesRightArchive

\* C17 amended: the cached archive is reused, with no download, exactly
\* when it exists, is younger than MAX_AGE_HOURS and has at least
\* 5,000,000 bytes; otherwise main downloads before use.
C17_ReusedIffAtLeastMinimum ==
  faa.pc \notin {"idle", "start"} =>
    /\ ~faa.called <=>
         /\ faa.zip0.exists
         /\ faa.zip0.age < MAX_AGE_HOURS * SecondsPerHour
         /\ faa.zip0.size >= 5000000
    /\ UsesRightArchive

\* a young archive of exactly 5,000,000 bytes, reused and validated
C17_Witness ==
  /\ faa.validated
  /\ ~faa.called
  /\ faa.requests = 0
  /\ faa.zip0.size = MinZipBytes
  /\ faa.zip = faa.zip0

\* C18: on the cached path and on the download path alike, a member of
\* the archive is read only after validate_zip has passed on it; when the
\* check fails the error is raised at once, nothing is parsed and nothing
\* is written.
C18_ValidatedBeforeRead ==
  faa.pc # "idle" =>
    /\ dpc # "idle" => faa.validated /\ faa.zip.exists /\ faa.zip.ok
    /\ faa.pc = "read" <=> dpc # "idle"
    /\ faa.err = "invalid" =>
         /\ faa.pc = "raised"
         /\ ~faa.validated
         /\ dpc = "idle"
         /\ dim = <<>>

\* a corrupt archive, newly downloaded, stops main
C18_Witness ==
  /\ faa.err = "invalid"
  /\ faa.won > 0
  /\ faa.zip.exists
  /\ ~faa.zip.ok

\* C27: download_with_retries returns normally only after a completely
\* downloaded file was renamed onto out_path during the call, whatever
\* `attempts` is; main never goes on to validate_zip with a missing or stale
\* archive after a call that downloaded nothing.
C27_ReturnsOnlyAfterDownload ==
  (faa.called /\ faa.pc \in {"validate", "validated", "read"}) =>
    /\ faa.won > 0
    /\ faa.zip.exists
    /\ faa.zip.gen = "new"

---------------------------------------------------------------------------
(* get_bts_data.py in "year" mode: process_month for each month of MONTHS, *)
(* run after run over the same download directory.  bts.zips[m] is the     *)
(* file at zip_path of month m: the chunks written and whether the body    *)
(* was written whole.                                                      *)

MaxMonths == 2        \* months of MONTHS
MaxRuns == 3          \* runs of the script over the same directory

\* "Origin" if "Origin" in cols else "ORIGIN", without the None branch
origin_col_default(cols) ==
  IF "Origin" \in cols THEN "Origin" ELSE "ORIGIN"

NoCol == "None"
origin_col(cols) ==
  IF "Origin" \in cols THEN "Origin"
  ELSE IF "ORIGIN" \in cols THEN "ORIGIN" ELSE NoCol
dest_col(cols) ==
  IF "Dest" \in cols THEN "Dest"
  ELSE IF "DEST" \in cols THEN "DEST" ELSE NoCol

OriginDestError ==
  "KeyError: Could not find Origin/Dest columns (expected Origin/Dest or ORIGIN/DEST)."
DateError ==
  "KeyError: Could not find a date column: expected 'FL_DATE' or 'FlightDate'."

\* get_date_expr: the column the date is parsed from, or the KeyError
get_date_expr(cols) ==
  IF "FL_DATE" \in cols THEN "FL_DATE"
  ELSE IF "FlightDate" \in cols THEN "FlightDate" ELSE DateError

\* the stem of the combined output, flight_delay_{YEAR}
YearStem == 0

\* the headers a month's CSV may carry
ColsPool ==
  {{"Origin", "Dest", "FlightDate"}, {"ORIGIN", "DEST", "FL_DATE"},
   {"Origin", "FL_DATE"}, {"DEST", "FlightDate"}, {"ORIGIN", "Dest"}}

InitBts ==
  /\ \E cs \in [1..MaxMonths -> ColsPool] :
       bts = [BtsStopped EXCEPT !.pc = "download", !.run = 1, !.month = 1,
                                !.zips = [m \in 1..MaxMonths |-> NoZip],
                                !.cols = cs]
  /\ files = NoFiles
  /\ pc = "idle" /\ flights = <<>> /\ weather = <<>> /\ out_csv = <<>>
  /\ TelemetryIdle
  /\ DimIdle
  /\ FaaIdle
  /\ PullIdle

BtsOthers ==
  UNCHANGED <<files, pc, flights, weather, out_csv, tpc, df, binScope, dpc,
              dim, faa, pull>>

\* download_zip up to the open of zip_path: return when the path exists,
\* else request; an error of the request creates no file
download_zip ==
  /\ bts.pc = "download"
  /\ IF bts.zips[bts.month].exists
     THEN bts' = [bts EXCEPT !.pc = "extract", !.skipped = TRUE]
     ELSE \/ \E n \in 1..MaxChunks :
               bts' = [bts EXCEPT !.pc = "streaming", !.body = n,
                         !.skipped = FALSE,
                         !.zips[bts.month] =
                            [exists |-> TRUE, chunks |-> 0, complete |-> FALSE]]
          \/ bts' = [bts EXCEPT !.pc = "failed", !.skipped = FALSE,
                                 !.err = "RequestException"]
  /\ BtsOthers

\* f.write(chunk): the chunk goes to zip_path itself
BtsWriteChunk ==
  /\ bts.pc = "streaming"
  /\ bts.zips[bts.month].chunks < bts.body
  /\ bts' = [bts EXCEPT !.zips[bts.month].chunks = @ + 1]
  /\ BtsOthers

\* the stream breaks or the run is interrupted: the exception leaves the
\* script, the file stays as far as it was written
BtsInterrupted ==
  /\ bts.pc = "streaming"
  /\ bts.zips[bts.month].chunks < bts.body
  /\ bts' = [bts EXCEPT !.pc = "failed", !.err = "RequestException"]
  /\ BtsOthers

\* the body is written whole and the file closed
BtsSaved ==
  /\ bts.pc = "streaming"
  /\ bts.zips[bts.month].chunks = bts.body
  /\ bts' = [bts EXCEPT !.pc = "extract", !.zips[bts.month].complete = TRUE]
  /\ BtsOthers

\* extract_zip: zipfile.ZipFile raises BadZipFile on a truncated file,
\* which ends the run
extract_zip ==
  /\ bts.pc = "extract"
  /\ IF ~bts.zips[bts.month].complete
     THEN bts' = [bts EXCEPT !.pc = "failed", !.err = "BadZipFile"]
     ELSE bts' = [bts EXCEPT !.pc = "scan"]
  /\ BtsOthers

\* the rest of process_month: the schema of the CSV, the column checks,
\* then the filter
process_month ==
  /\ bts.pc = "scan"
  /\ LET cols == bts.cols[bts.month]
     IN IF origin_col(cols) = NoCol \/ dest_col(cols) = NoCol
        THEN bts' = [bts EXCEPT !.pc = "failed", !.err = OriginDestError]
        ELSE IF get_date_expr(cols) = DateError
        THEN bts' = [bts EXCEPT !.pc = "failed", !.err = DateError]
        ELSE bts' = [bts EXCEPT !.pc = "write_month",
                                !.filtered = @ \cup {bts.month}]
  /\ BtsOthers

\* WRITE_MONTHLY_FILES: write_outputs of the month, then the next month
write_outputs ==
  /\ bts.pc = "write_month"
  /\ IF bts.month < MaxMonths
     THEN bts' = [bts EXCEPT !.pc = "download", !.month = @ + 1,
                             !.skipped = FALSE,
                             !.written = @ \cup {bts.month}]
     ELSE bts' = [bts EXCEPT !.pc = "write_year",
                             !.written = @ \cup {bts.month}]
  /\ BtsOthers

\* WRITE_YEAR_FILE: the months concatenated and written
write_year ==
  /\ bts.pc = "write_year"
  /\ bts' = [bts EXCEPT !.pc = "done", !.written = @ \cup {YearStem}]
  /\ BtsOthers

\* the script is started again over the same directory
RunAgain ==
  /\ bts.pc \in {"failed", "done"}
  /\ bts.run < MaxRuns
  /\ bts' = [bts EXCEPT !.pc = "download", !.run = @ + 1, !.month = 1,
                        !.body = 0, !.skipped = FALSE, !.err = "none",
                        !.filtered = {}, !.written = {}]
  /\ BtsOthers

NextBts ==
  \/ download_zip
  \/ BtsWriteChunk
  \/ BtsInterrupted
  \/ BtsSaved
  \/ extract_zip
  \/ process_month
  \/ write_outputs
  \/ write_year
  \/ RunAgain

SpecBts == InitBts /\ [][NextBts]_vars

\* C16: a later run never takes a file left partial by an interrupted
\* download for a cached archive: it does not skip the download and go on
\* to extract that file.
C16_PartialNeverCached ==
  ~(/\ bts.pc = "extract"
    /\ bts.skipped
    /\ bts.run > 1
    /\ ~bts.zips[bts.month].complete)

---------------------------------------------------------------------------
(* The schema checks of get_bts_data.py and join_data_sources.py: one of the
   two scripts runs *)

InitSchema == InitBts \/ Init

NextSchema == NextBts \/ Next

SpecSchema == InitSchema /\ [][NextSchema]_vars

HasOriginDest(cols) ==
  /\ ("Origin" \in cols \/ "ORIGIN" \in cols)
  /\ ("Dest" \in cols \/ "DEST" \in cols)

HasDate(cols) == "FL_DATE" \in cols \/ "FlightDate" \in cols

\* C22: process_month raises the KeyError naming Origin/Dest or ORIGIN/DEST
\* when the month's CSV has neither origin column or neither destination
\* column, and the KeyError naming FL_DATE or FlightDate when it has neither
\* date column; the month is then neither filtered nor written and no
\* combined output is written. attach_registry raises the ValueError when
\* the registry has no n_number column; the flights are then unchanged and
\* nothing is written.
C22_MissingColumnFailsFast ==
  /\ [](/\ \A m \in bts.filtered :
            HasOriginDest(bts.cols[m]) /\ HasDate(bts.cols[m])
        /\ bts.written \ {YearStem} \subseteq bts.filtered
        /\ (YearStem \in bts.written => bts.filtered = 1..MaxMonths)
        /\ ((bts.pc = "failed" /\ bts.err \in {OriginDestError, DateError})
             => /\ bts.month \notin bts.filtered
                /\ bts.month \notin bts.written
                /\ YearStem \notin bts.written)
        /\ (pc = "registry_error" => out_csv = <<>>))
  /\ [][/\ (bts.pc = "scan" /\ bts' # bts) =>
            IF ~HasOriginDest(bts.cols[bts.month])
            THEN bts'.pc = "failed" /\ bts'.err = OriginDestError
            ELSE IF ~HasDate(bts.cols[bts.month])
            THEN bts'.pc = "failed" /\ bts'.err = DateError
            ELSE bts'.pc = "write_month"
         /\ (pc = "regional_added" /\ pc' # pc) =>
            IF Len(files.registry) > 0
               /\ "n_number" \notin DOMAIN files.registry[1]
            THEN pc' = "registry_error" /\ flights' = flights
                 /\ out_csv' = out_csv
            ELSE pc' = "registry_attached"]_vars

\* the second month's CSV has no date column, after the first month was
\* filtered and written
C22_Witness ==
  /\ bts.pc = "failed"
  /\ bts.err = DateError
  /\ bts.month = 2
  /\ bts.written = {1}
  /\ HasOriginDest(bts.cols[2])

---------------------------------------------------------------------------
(* opensky_pull.py: fetch_opensky_history_airport and _chunks. Instants and
   durations are whole hours. *)

MaxSpan == 5          \* the latest hour start and stop are drawn from
MaxChunkHours == 2    \* the largest chunk_hours

\* the pairs and the queries the model keeps count of: more than a range
\* of MaxSpan hours has chunks of an hour
LogCap == MaxSpan + 1

\* cur + chunk without the min with stop
next_end_unclamped(cur, chunk, stop) == cur + chunk

\* nxt = min(cur + chunk, stop)
next_end(cur, chunk, stop) == Min({cur + chunk, stop})

InitPull ==
  /\ \E a, b \in 0..MaxSpan, h \in 0..MaxChunkHours :
       pull = [PullStopped EXCEPT !.pc = "start", !.start = a, !.stop = b,
                                  !.chunk_hours = h]
  /\ files = NoFiles
  /\ pc = "idle" /\ flights = <<>> /\ weather = <<>> /\ out_csv = <<>>
  /\ TelemetryIdle
  /\ DimIdle
  /\ FaaIdle
  /\ BtsIdle

PullOthers ==
  UNCHANGED <<files, pc, flights, weather, out_csv, tpc, df, binScope, dpc,
              dim, faa, bts>>

\* _to_dt of both ends and the test of the range
CheckRange ==
  /\ pull.pc = "start"
  /\ IF pull.stop <= pull.start
     THEN pull' = [pull EXCEPT !.pc = "raised", !.err = "ValueError"]
     ELSE pull' = [pull EXCEPT !.pc = "loop", !.cur = pull.start]
  /\ PullOthers

\* _chunks up to its yield: the pair (cur, nxt) reaches the for loop
YieldChunk ==
  /\ pull.pc = "loop"
  /\ pull.cur < pull.stop
  /\ LET nxt == next_end(pull.cur, pull.chunk_hours, pull.stop)
     IN pull' = [pull EXCEPT
                   !.pc = "query", !.nxt = nxt,
                   !.yielded = IF Len(@) < LogCap
                               THEN Append(@, <<pull.cur, nxt>>) ELSE @]
  /\ PullOthers

\* the body of the for loop, trino.history(s, e), then the generator is
\* resumed: cur = nxt
QueryChunk ==
  /\ pull.pc = "query"
  /\ pull' = [pull EXCEPT !.pc = "loop", !.cur = pull.nxt,
                          !.queries = IF @ < LogCap THEN @ + 1 ELSE @]
  /\ PullOthers

\* the generator is exhausted: the frames are concatenated and returned
ReturnFrames ==
  /\ pull.pc = "loop"
  /\ pull.cur >= pull.stop
  /\ pull' = [pull EXCEPT !.pc = "returned"]
  /\ PullOthers

NextPull ==
  \/ CheckRange
  \/ YieldChunk
  \/ QueryChunk
  \/ ReturnFrames

SpecPull == InitPull /\ [][NextPull]_vars

\* the interpreter keeps running the call
SpecPullLive == SpecPull /\ WF_vars(NextPull)

\* C29: for start < stop and a positive chunk the pairs of _chunks partition
\* [start, stop): the first starts at start, each ends where the next
\* starts, each has s < e and e - s <= chunk, and when the loop is over the
\* last ends at stop; each pair is queried once, before the next is made. With stop <= start
\* fetch_opensky_history_airport raises ValueError and issues no query.
C29_ChunksPartition ==
  /\ (pull.pc # "idle" /\ pull.start < pull.stop /\ pull.chunk_hours > 0) =>
       LET y == pull.yielded
       IN /\ pull.pc \in {"start", "loop", "query", "returned"}
          /\ pull.queries = (IF pull.pc = "query" THEN Len(y) - 1 ELSE Len(y))
          /\ Len(y) > 0 => y[1][1] = pull.start
          /\ \A k \in 1..Len(y) :
               /\ y[k][1] < y[k][2]
               /\ y[k][2] - y[k][1] <= pull.chunk_hours
               /\ k < Len(y) => y[k][2] = y[k + 1][1]
          /\ (pull.pc = "loop" /\ Len(y) > 0) => y[Len(y)][2] = pull.cur
          /\ pull.pc = "returned" => (Len(y) > 0 /\ y[Len(y)][2] = pull.stop)
  /\ (pull.pc # "idle" /\ pull.stop <= pull.start) =>
       /\ pull.pc \in {"start", "raised"}
       /\ pull.queries = 0
       /\ pull.yielded = <<>>
       /\ pull.pc = "raised" => pull.err = "ValueError"
  /\ pull.pc = "raised" => pull.stop <= pull.start

\* five hours in chunks of two: (0, 2), (2, 4), (4, 5)
C29_Witness ==
  /\ pull.pc = "returned"
  /\ pull.chunk_hours = 2
  /\ pull.yielded = <<<<0, 2>>, <<2, 4>>, <<4, 5>>>>

\* C30: the chunked loop terminates for every start < stop and every
\* integer chunk_hours, 0 included: the call returns or raises.
C30_LoopTerminates == <>(pull.pc \in {"returned", "raised"})

====
